---- MODULE Spec2Model ----
(***************************************************************************)
(* Model of tools/springboot/verify_conflict.py: the allowlist loader, the *)
(* classes-index parser, the duplicate-class checker and run().            *)
(*                                                                         *)
(* Text is modelled as a sequence of atoms.  An atom is a piece of text    *)
(* that the string operations of the script never cut in two: " " is one   *)
(* whitespace character, "/" the path separator, "#" the comment mark,     *)
(* "Jarname:" the first eight characters of JARNAME_PREFIX, ".class" and   *)
(* "module-info.class" the two suffixes the parser tests, and every other  *)
(* atom is a run of ordinary characters.                                   *)
(***************************************************************************)
EXTENDS Naturals, Sequences, FiniteSets

VARIABLES
    pc,                        \* position in run()
    allowlisted_jars,          \* set built by _parse_allowlisted_jars_file
    class_path_to_jar_paths,   \* the dict, as a sequence of <<class_path, jars>> in insertion order
    current_jar_path,          \* the parser's cursor
    line,                      \* the stripped line a parser has just read
    found_duplicates,
    allowlist_violation_jars,
    class_idx,                 \* position of the outer loop in the dict's items
    jar_idx,                   \* position of the inner loop in jars
    jar_path_and_md5s,
    all_hash_digests_match,
    previous_digest,
    previous_jar_path,
    archive,                   \* the entries read from the jars so far: <<jar_path, class_path, digest>>
    verdicts,                  \* the allowlist tests made so far: <<jar_path, in allowlist>>
    stdout,                    \* what has been printed, in order
    exception                  \* the exception run() ended with, or NoneVal

vars == <<pc, allowlisted_jars, class_path_to_jar_paths, current_jar_path, line,
          found_duplicates, allowlist_violation_jars, class_idx, jar_idx,
          jar_path_and_md5s, all_hash_digests_match, previous_digest,
          previous_jar_path, archive, verdicts, stdout, exception>>

\* The largest number of class entries the index file holds.
MaxEntries == 3

\* The same, for the runs with four jars under one class path.
MaxEntriesLong == 4

\* Python's None.
NoneVal == << "<None>" >>

\* The exceptions run() can end with.
JarNotFound == << "Jar not found for class" >>
ArchiveReadError == << "archive read error" >>
FoundDuplicates == << "Found duplicate classes in the packaged springboot jar" >>

JARNAME_PREFIX == << "Jarname:", " " >>

-----------------------------------------------------------------------------
(* String operations *)

RECURSIVE LStrip(_)
LStrip(s) == IF Len(s) > 0 /\ Head(s) = " " THEN LStrip(Tail(s)) ELSE s

RECURSIVE RStrip(_)
RStrip(s) ==
    IF Len(s) > 0 /\ s[Len(s)] = " " THEN RStrip(SubSeq(s, 1, Len(s) - 1)) ELSE s

\* str.strip()
Strip(s) == RStrip(LStrip(s))

\* str.startswith(prefix)
StartsWith(s, prefix) ==
    Len(s) >= Len(prefix) /\ SubSeq(s, 1, Len(prefix)) = prefix

\* s[n:]
SliceFrom(s, n) == SubSeq(s, n + 1, Len(s))

\* The largest index at which atom c occurs in s, 0 when it does not.
LastIndexOf(s, c) ==
    LET hits == {k \in 1..Len(s) : s[k] = c}
    IN  IF hits = {} THEN 0 ELSE CHOOSE k \in hits : \A m \in hits : m <= k

\* os.path.basename(p): what follows the last "/".
Basename(p) == SliceFrom(p, LastIndexOf(p, "/"))

\* line.split()[-1] of a stripped, non-empty line: what follows the last whitespace.
LastToken(l) == SliceFrom(l, LastIndexOf(l, " "))

\* str.endswith(".class")
EndsWithClass(s) == Len(s) > 0 /\ s[Len(s)] \in {".class", "module-info.class"}

\* str.endswith("module-info.class")
EndsWithModuleInfo(s) == Len(s) > 0 /\ s[Len(s)] = "module-info.class"

-----------------------------------------------------------------------------
(* Inputs *)

\* Lines of the allowlist file.
AllowlistLines ==
    { << >>,
      << " " >>,
      << "#", "b.jar" >>,
      << "x", "/", "a.jar" >>,
      << " ", "a.jar", " " >> }

JarA1 == << "x", "/", "a.jar" >>
JarA2 == << "y", "/", "a.jar" >>
JarB  == << "b.jar" >>
JarC  == << "c.jar" >>

\* Lines of the classes index file.
IndexLines ==
    { JARNAME_PREFIX \o JarA1,
      JARNAME_PREFIX \o JarA2,
      JARNAME_PREFIX \o JarB,
      << " " >> \o JARNAME_PREFIX \o << " " >> \o JarC \o << " " >>,
      << "Jarname:", " " >>,
      << "Archive:", " ", "app.jar" >>,
      << "2624", " ", "00:00", " ", "foo", "/", "Bar", ".class" >>,
      << "Baz", ".class", " " >>,
      << "17", " ", "foo", "/", "module-info.class" >> }

\* MD5 digests of class bytes.
Digests == { << "d1" >>, << "d2" >> }

-----------------------------------------------------------------------------
(* The dict class_path_to_jar_paths *)

Keys(d) == { d[k][1] : k \in 1..Len(d) }

KeyIndex(d, key) == CHOOSE k \in 1..Len(d) : d[k][1] = key

\* class_path_to_jar_paths[class_path].append(jar_path) on a defaultdict(list)
DictAppend(d, key, jar_path) ==
    IF key \in Keys(d)
    THEN [d EXCEPT ![KeyIndex(d, key)] = << key, @[2] \o << jar_path >> >>]
    ELSE Append(d, << key, << jar_path >> >>)

RECURSIVE TotalEntries(_)
TotalEntries(d) == IF d = << >> THEN 0 ELSE Len(Head(d)[2]) + TotalEntries(Tail(d))

-----------------------------------------------------------------------------

Init ==
    /\ pc = "parse_allowlist"
    /\ allowlisted_jars = {}
    /\ class_path_to_jar_paths = << >>
    /\ current_jar_path = NoneVal
    /\ line = NoneVal
    /\ found_duplicates = FALSE
    /\ allowlist_violation_jars = {}
    /\ class_idx = 1
    /\ jar_idx = 1
    /\ jar_path_and_md5s = << >>
    /\ all_hash_digests_match = TRUE
    /\ previous_digest = NoneVal
    /\ previous_jar_path = NoneVal
    /\ archive = {}
    /\ verdicts = {}
    /\ stdout = << >>
    /\ exception = NoneVal

checkLocals == <<found_duplicates, allowlist_violation_jars, class_idx, jar_idx,
                 jar_path_and_md5s, all_hash_digests_match, previous_digest,
                 previous_jar_path, archive, verdicts>>

-----------------------------------------------------------------------------
(* _parse_allowlisted_jars_file *)

\* Whether the stripped line is skipped (blank or a comment).
AllowlistLineSkipped(l) == Len(l) = 0 \/ StartsWith(l, << "#" >>)

\* What a line of the allowlist file adds to the set.
AllowlistEntry(l) == Basename(l)

\* One iteration of the loop over the lines of the allowlist file.
ParseAllowlistLine ==
    /\ pc = "parse_allowlist"
    /\ \E raw \in AllowlistLines :
         /\ line' = Strip(raw)
         /\ allowlisted_jars' =
                 IF AllowlistLineSkipped(line')
                 THEN allowlisted_jars
                 ELSE allowlisted_jars \cup { AllowlistEntry(line') }
    /\ UNCHANGED <<pc, class_path_to_jar_paths, current_jar_path, checkLocals,
                   stdout, exception>>

\* End of the allowlist file: the set is returned and the index parser starts.
ParseAllowlistReturn ==
    /\ pc = "parse_allowlist"
    /\ pc' = "parse_index"
    /\ line' = NoneVal
    /\ UNCHANGED <<allowlisted_jars, class_path_to_jar_paths, current_jar_path,
                   checkLocals, stdout, exception>>

-----------------------------------------------------------------------------
(* _parse_classes_index_file *)

\* A parser without the skip of lines 83 to 85.
IsModuleInfoNever(cp) == FALSE

\* The test of line 83.
IsModuleInfo(cp) == EndsWithModuleInfo(cp)

\* A parser without the check of lines 86 and 87.
JarMissingNever(jar_path) == FALSE

\* The test of line 86.
JarMissing(jar_path) == jar_path = NoneVal

\* One iteration of the loop over the lines of the index file.
ParseIndexLine(max_entries) ==
    /\ pc = "parse_index"
    /\ TotalEntries(class_path_to_jar_paths) < max_entries
    /\ \E raw \in IndexLines :
         LET l == Strip(raw)
             cp == Strip(LastToken(l))
         IN  /\ line' = l
             /\ IF StartsWith(l, JARNAME_PREFIX)
                THEN /\ current_jar_path' = Strip(SliceFrom(l, Len(JARNAME_PREFIX)))
                     /\ UNCHANGED <<pc, class_path_to_jar_paths, exception>>
                ELSE IF EndsWithClass(l)
                THEN IF IsModuleInfo(cp)
                     THEN UNCHANGED <<pc, class_path_to_jar_paths, current_jar_path, exception>>
                     ELSE IF JarMissing(current_jar_path)
                     THEN /\ pc' = "raised"
                          /\ exception' = JarNotFound
                          /\ UNCHANGED <<class_path_to_jar_paths, current_jar_path>>
                     ELSE /\ class_path_to_jar_paths' =
                                 DictAppend(class_path_to_jar_paths, cp, current_jar_path)
                          /\ UNCHANGED <<pc, current_jar_path, exception>>
                ELSE UNCHANGED <<pc, class_path_to_jar_paths, current_jar_path, exception>>
    /\ UNCHANGED <<allowlisted_jars, checkLocals, stdout>>

\* End of file: the mapping is returned and _check_for_duplicate_classes starts.
ParseIndexReturn ==
    /\ pc = "parse_index"
    /\ pc' = "for_class"
    /\ current_jar_path' = NoneVal
    /\ line' = NoneVal
    /\ found_duplicates' = FALSE
    /\ allowlist_violation_jars' = {}
    /\ class_idx' = 1
    /\ UNCHANGED <<allowlisted_jars, class_path_to_jar_paths, jar_idx,
                   jar_path_and_md5s, all_hash_digests_match, previous_digest,
                   previous_jar_path, archive, verdicts, stdout, exception>>

-----------------------------------------------------------------------------
(* _check_for_duplicate_classes *)

class_path == class_path_to_jar_paths[class_idx][1]
jars == class_path_to_jar_paths[class_idx][2]

\* An outer loop that stops at the first conflict.
OuterLoopDoneOrFound == class_idx > Len(class_path_to_jar_paths) \/ found_duplicates

\* Whether the loop of line 18 has gone through every item of the dict.
OuterLoopDone == class_idx > Len(class_path_to_jar_paths)

\* Whether a class path with this many jars is examined (line 19).
HasSeveralJars(n) == n > 1

\* Top of the outer loop, with a class path left.
ForClass ==
    /\ pc = "for_class"
    /\ ~OuterLoopDone
    /\ IF HasSeveralJars(Len(jars))
       THEN /\ jar_path_and_md5s' = << >>
            /\ all_hash_digests_match' = TRUE
            /\ previous_digest' = NoneVal
            /\ previous_jar_path' = NoneVal
            /\ jar_idx' = 1
            /\ pc' = "for_jar"
            /\ UNCHANGED class_idx
       ELSE /\ class_idx' = class_idx + 1
            /\ UNCHANGED <<pc, jar_idx, jar_path_and_md5s, all_hash_digests_match,
                           previous_digest, previous_jar_path>>
    /\ UNCHANGED <<allowlisted_jars, class_path_to_jar_paths, current_jar_path, line,
                   found_duplicates, allowlist_violation_jars, archive, verdicts,
                   stdout, exception>>

\* The digests the archive can yield for an entry: the one already read, or any.
DigestsOf(jar_path, cp) ==
    IF \E e \in archive : e[1] = jar_path /\ e[2] = cp
    THEN { e[3] : e \in { f \in archive : f[1] = jar_path /\ f[2] = cp } }
    ELSE Digests

\* A checker that tests the whole jar path against the allowlist.
JarBaseFullPath(jar_path) == jar_path

\* The name tested against the allowlist (lines 31 and 32).
JarBase(jar_path) == Basename(jar_path)

\* A checker that takes every later jar for a mismatch.
DigestsDifferAlways(prev, digest) == TRUE

\* Whether two digests are a mismatch (line 30).
DigestsDiffer(prev, digest) == prev # digest

\* A checker with the allowlist test of the current jar inverted.
JarViolatesInverted(jar_base, allowlist) == jar_base \in allowlist

\* A checker that adds the current jar whether or not it is allowlisted.
JarViolatesAlways(jar_base, allowlist) == TRUE

\* Whether the mismatch makes the current jar a violation (line 35).
JarViolates(jar_base, allowlist) == jar_base \notin allowlist

\* A checker with the allowlist test of the previous jar inverted.
PrevJarViolatesInverted(prev_jar_base, allowlist) == prev_jar_base \in allowlist

\* Whether the mismatch makes the previous jar a violation (line 39).
PrevJarViolates(prev_jar_base, allowlist) == prev_jar_base \notin allowlist

\* One iteration of the inner loop: read the entry, digest it, compare it
\* with the previous jar's.
CheckJar ==
    /\ pc = "for_jar"
    /\ jar_idx <= Len(jars)
    /\ LET jar_path == jars[jar_idx]
       IN  \E digest \in DigestsOf(jar_path, class_path) :
             LET mismatch == previous_digest # NoneVal
                               /\ DigestsDiffer(previous_digest, digest)
                 jar_base == JarBase(jar_path)
                 prev_jar_base == JarBase(previous_jar_path)
                 v1 == mismatch /\ JarViolates(jar_base, allowlisted_jars)
                 v2 == mismatch /\ PrevJarViolates(prev_jar_base, allowlisted_jars)
             IN  /\ archive' = archive \cup { << jar_path, class_path, digest >> }
                 /\ jar_path_and_md5s' = Append(jar_path_and_md5s, << jar_path, digest >>)
                 /\ allowlist_violation_jars' =
                        allowlist_violation_jars
                            \cup (IF v1 THEN { jar_base } ELSE {})
                            \cup (IF v2 THEN { prev_jar_base } ELSE {})
                 /\ all_hash_digests_match' = (all_hash_digests_match /\ ~v1 /\ ~v2)
                 /\ found_duplicates' = (found_duplicates \/ v1 \/ v2)
                 /\ verdicts' =
                        IF mismatch
                        THEN verdicts \cup { << jar_path, ~JarViolates(jar_base, allowlisted_jars) >>,
                                             << previous_jar_path,
                                                ~PrevJarViolates(prev_jar_base, allowlisted_jars) >> }
                        ELSE verdicts
                 /\ previous_digest' = digest
                 /\ previous_jar_path' = jar_path
    /\ jar_idx' = jar_idx + 1
    /\ UNCHANGED <<pc, allowlisted_jars, class_path_to_jar_paths, current_jar_path, line,
                   class_idx, stdout, exception>>

\* zipfile.ZipFile(jar_path) or jar.read(class_path) raises.
ArchiveReadFails ==
    /\ pc = "for_jar"
    /\ jar_idx <= Len(jars)
    /\ ~ \E e \in archive : e[1] = jars[jar_idx] /\ e[2] = class_path
    /\ pc' = "raised"
    /\ exception' = ArchiveReadError
    /\ UNCHANGED <<allowlisted_jars, class_path_to_jar_paths, current_jar_path, line,
                   checkLocals, stdout>>

\* Whether the class path's diagnostic is printed (line 45).
PrintsConflict(all_match) == ~all_match

\* End of the inner loop.
EndClass ==
    /\ pc = "for_jar"
    /\ jar_idx > Len(jars)
    /\ stdout' = IF PrintsConflict(all_hash_digests_match)
                 THEN Append(stdout, << "conflict", class_path, jar_path_and_md5s >>)
                 ELSE stdout
    /\ class_idx' = class_idx + 1
    /\ pc' = "for_class"
    /\ UNCHANGED <<allowlisted_jars, class_path_to_jar_paths, current_jar_path, line,
                   found_duplicates, allowlist_violation_jars, jar_idx,
                   jar_path_and_md5s, all_hash_digests_match, previous_digest,
                   previous_jar_path, archive, verdicts, exception>>

\* End of the outer loop: line 48.
PrintHeader ==
    /\ pc = "for_class"
    /\ OuterLoopDone
    /\ stdout' = Append(stdout, << "header", << >>, << >> >>)
    /\ pc' = "print_candidates"
    /\ UNCHANGED <<allowlisted_jars, class_path_to_jar_paths, current_jar_path, line,
                   checkLocals, exception>>

\* The candidates printed so far.
PrintedCandidates ==
    { stdout[k][2] : k \in { m \in 1..Len(stdout) : stdout[m][1] = "candidate" } }

\* One iteration of the loop of line 49; a set is iterated in no particular order.
PrintCandidate ==
    /\ pc = "print_candidates"
    /\ \E c \in allowlist_violation_jars \ PrintedCandidates :
         stdout' = Append(stdout, << "candidate", c, << >> >>)
    /\ UNCHANGED <<pc, allowlisted_jars, class_path_to_jar_paths, current_jar_path, line,
                   checkLocals, exception>>

\* Whether run() raises (line 115).
RunRaises(found) == found

\* _check_for_duplicate_classes returns and run() ends.
Return ==
    /\ pc = "print_candidates"
    /\ allowlist_violation_jars \ PrintedCandidates = {}
    /\ IF RunRaises(found_duplicates)
       THEN /\ pc' = "raised"
            /\ exception' = FoundDuplicates
       ELSE /\ pc' = "done"
            /\ UNCHANGED exception
    /\ UNCHANGED <<allowlisted_jars, class_path_to_jar_paths, current_jar_path, line,
                   checkLocals, stdout>>

-----------------------------------------------------------------------------

Step(max_entries) ==
    \/ ParseAllowlistLine
    \/ ParseAllowlistReturn
    \/ ParseIndexLine(max_entries)
    \/ ParseIndexReturn
    \/ ForClass
    \/ CheckJar
    \/ ArchiveReadFails
    \/ EndClass
    \/ PrintHeader
    \/ PrintCandidate
    \/ Return

Next == Step(MaxEntries)

Spec == Init /\ [][Next]_vars

NextLong == Step(MaxEntriesLong)

\* The runs of an index file of up to MaxEntriesLong class entries.
SpecLong == Init /\ [][NextLong]_vars

-----------------------------------------------------------------------------
(* Vocabulary of the properties *)

Items == 1..Len(class_path_to_jar_paths)
KeyAt(k) == class_path_to_jar_paths[k][1]
JarsAt(k) == class_path_to_jar_paths[k][2]

\* The entry of the jar has been read, and its digest.
WasRead(jar_path, cp) == \E e \in archive : e[1] = jar_path /\ e[2] = cp
DigestRead(jar_path, cp) == CHOOSE d \in Digests : << jar_path, cp, d >> \in archive

\* The jar's basename is in the allowlist.
Allowlisted(jar_path) == Basename(jar_path) \in allowlisted_jars

\* The inner loop has gone through jar i of item k.
Reached(k, i) ==
    /\ Len(JarsAt(k)) > 1
    /\ \/ class_idx > k
       \/ class_idx = k /\ pc \in { "for_jar", "raised" } /\ jar_idx > i

\* The loop has gone through jars i and j of item k and their digests differ.
Differ(k, i, j) ==
    /\ Reached(k, i)
    /\ Reached(k, j)
    /\ DigestRead(JarsAt(k)[i], KeyAt(k)) # DigestRead(JarsAt(k)[j], KeyAt(k))

\* Some two jars of item k differ.
MismatchSeen(k) == \E i, j \in 1..Len(JarsAt(k)) : Differ(k, i, j)

\* Jars i and i+1 of item k differ.
AdjacentMismatch(k, i) == i \in 1..(Len(JarsAt(k)) - 1) /\ Differ(k, i, i + 1)

\* Jars i and i+1 of item k differ and one of them is not in the allowlist.
TrueConflict(k, i) ==
    /\ AdjacentMismatch(k, i)
    /\ (~Allowlisted(JarsAt(k)[i]) \/ ~Allowlisted(JarsAt(k)[i + 1]))

AllAllowlisted(k) == \A i \in 1..Len(JarsAt(k)) : Allowlisted(JarsAt(k)[i])

\* The diagnostic of the class path has been printed.
ConflictPrinted(cp) ==
    \E m \in 1..Len(stdout) : stdout[m][1] = "conflict" /\ stdout[m][2] = cp

HeaderPrinted == \E m \in 1..Len(stdout) : stdout[m][1] = "header"

\* The outer loop has left item k behind.
Passed(k) == class_idx > k

\* run() raised the failure of line 116.
Failed == pc = "raised" /\ exception = FoundDuplicates

\* run() went through the whole check.
RunEnded == pc = "done" \/ Failed

-----------------------------------------------------------------------------
(* C1 *)

TwoJarConflict(k) ==
    /\ Len(JarsAt(k)) = 2
    /\ ~Allowlisted(JarsAt(k)[1])
    /\ ~Allowlisted(JarsAt(k)[2])
    /\ Differ(k, 1, 2)

\* C1: a class path listed under exactly two jars, neither allowlisted, whose
\* bytes differ: both basenames are in the violation set and the flag is set
\* as soon as the second jar is read, the diagnostic is printed once the class
\* path is left, and the run ends by raising, with both basenames printed as
\* allowlist candidates.
C1_TwoJarConflict ==
    \A k \in Items :
        TwoJarConflict(k) =>
            /\ { Basename(JarsAt(k)[1]), Basename(JarsAt(k)[2]) } \subseteq allowlist_violation_jars
            /\ found_duplicates
            /\ (Passed(k) => ConflictPrinted(KeyAt(k)))
            /\ (RunEnded =>
                  /\ Failed
                  /\ { Basename(JarsAt(k)[1]), Basename(JarsAt(k)[2]) } \subseteq PrintedCandidates)

C1_Witness == Failed /\ \E k \in Items : TwoJarConflict(k)

-----------------------------------------------------------------------------
(* C2 *)

\* C2: when the run has ended, every class path with two jars at any two
\* positions, neither allowlisted, whose digests differ, has been reported,
\* and the run has failed.
C2_AnyPairConflict ==
    RunEnded =>
        \A k \in Items : \A i, j \in 1..Len(JarsAt(k)) :
            (~Allowlisted(JarsAt(k)[i]) /\ ~Allowlisted(JarsAt(k)[j]) /\ Differ(k, i, j))
                => (ConflictPrinted(KeyAt(k)) /\ Failed)

-----------------------------------------------------------------------------
(* C3 *)

\* C3: a class path whose jars are all allowlisted is never printed and none
\* of its jars' basenames is in the violation set, whatever the bytes; and
\* while every class path with differing bytes is of this kind, the flag is
\* not set, nothing is reported and the run does not fail.
C3_AllowlistedTolerated ==
    /\ \A k \in Items :
          AllAllowlisted(k) =>
              /\ ~ConflictPrinted(KeyAt(k))
              /\ \A i \in 1..Len(JarsAt(k)) : Basename(JarsAt(k)[i]) \notin allowlist_violation_jars
    /\ (\A k \in Items : MismatchSeen(k) => AllAllowlisted(k)) =>
          /\ ~found_duplicates
          /\ allowlist_violation_jars = {}
          /\ ~Failed
          /\ \A k \in Items : ~ConflictPrinted(KeyAt(k))

C3_Witness == pc = "done" /\ \E k \in Items : AllAllowlisted(k) /\ MismatchSeen(k)

-----------------------------------------------------------------------------
(* C4 *)

\* C4: a class path with one jar, or whose jars all gave the same digest, is
\* not printed and leaves all_hash_digests_match set; the flag is set only if
\* some class path has differing digests, and every basename of the violation
\* set is that of a jar of such a class path.
C4_SameBytesNeverConflict ==
    /\ \A k \in Items :
          (Len(JarsAt(k)) = 1 \/ ~MismatchSeen(k)) =>
              /\ ~ConflictPrinted(KeyAt(k))
              /\ (pc = "for_jar" /\ class_idx = k => all_hash_digests_match)
    /\ found_duplicates => \E k \in Items : MismatchSeen(k)
    /\ \A b \in allowlist_violation_jars :
          \E k \in Items :
              /\ MismatchSeen(k)
              /\ \E i \in 1..Len(JarsAt(k)) : Basename(JarsAt(k)[i]) = b

C4_Witness ==
    /\ pc = "done"
    /\ allowlisted_jars = {}
    /\ \E k \in Items : Len(JarsAt(k)) = 1
    /\ \E k \in Items : Len(JarsAt(k)) > 1 /\ WasRead(JarsAt(k)[2], KeyAt(k))

-----------------------------------------------------------------------------
(* C5 *)

\* The parser has read a class-file line with no jar seen and goes on.
SurvivedClassLineWithoutJar ==
    pc = "parse_index" /\ current_jar_path = NoneVal /\ EndsWithClass(line)

\* C5 as stated: the parser never goes on after a class-file line read before
\* any "Jarname: " line.
C5_EveryClassLineFails == ~SurvivedClassLineWithoutJar

\* C5: the only class-file lines the parser goes on after, with no jar seen,
\* are those whose class path ends in "module-info.class"; they leave the
\* mapping empty; and when the parser raises, it is on such a line that is
\* not a module-info line, with no mapping built and no check run.
C5_NonModuleInfoClassLineFails ==
    /\ SurvivedClassLineWithoutJar => EndsWithModuleInfo(LastToken(line))
    /\ (pc = "parse_index" /\ current_jar_path = NoneVal) => class_path_to_jar_paths = << >>
    /\ (pc = "raised" /\ exception = JarNotFound) =>
          /\ EndsWithClass(line)
          /\ ~EndsWithModuleInfo(LastToken(line))
          /\ current_jar_path = NoneVal
          /\ class_path_to_jar_paths = << >>
          /\ archive = {}
          /\ stdout = << >>
          /\ ~found_duplicates

C5_Witness == pc = "raised" /\ exception = JarNotFound /\ stdout = << >>

-----------------------------------------------------------------------------
(* C6 *)

\* C6: no key of the mapping ends in "module-info.class", no such entry is
\* ever read from a jar and none is ever printed as a conflict.
C6_NoModuleInfoKey ==
    /\ \A k \in Items : ~EndsWithModuleInfo(KeyAt(k))
    /\ \A e \in archive : ~EndsWithModuleInfo(e[2])
    /\ \A m \in 1..Len(stdout) : stdout[m][1] = "conflict" => ~EndsWithModuleInfo(stdout[m][2])

\* A module-info line has just been read under a jar, after other entries.
C6_Witness ==
    /\ pc = "parse_index"
    /\ EndsWithModuleInfo(line)
    /\ current_jar_path = JarC
    /\ Len(class_path_to_jar_paths) > 0

-----------------------------------------------------------------------------
(* C7 *)

\* C7: the allowlist holds basenames only (no element has a "/"), every
\* allowlist test made on a jar of the index came out as "allowlisted" exactly
\* when the basename of the jar's path is in the allowlist, and two jar paths
\* with the same basename never got different verdicts.
C7_BasenameMatching ==
    /\ \A a \in allowlisted_jars : LastIndexOf(a, "/") = 0
    /\ \A v \in verdicts : v[2] <=> (Basename(v[1]) \in allowlisted_jars)
    /\ \A v, w \in verdicts : Basename(v[1]) = Basename(w[1]) => v[2] = w[2]

C7_Witness == { << JarA1, TRUE >>, << JarA2, TRUE >> } \subseteq verdicts

-----------------------------------------------------------------------------
(* C8 *)

\* C8: run fails only if a conflict was found, and when it completes without
\* failing no conflict was found and nothing has been written to standard
\* output.
C8_SilentSuccess ==
    /\ Failed => found_duplicates
    /\ pc = "done" => (~found_duplicates /\ stdout = << >>)

-----------------------------------------------------------------------------
(* C9 *)

\* C9 as stated: two adjacent jars with differing digests, one of them not
\* allowlisted: both basenames are in the violation set and the flag is set.
C9_BothJarsAdded ==
    \A k \in Items : \A i \in 1..Len(JarsAt(k)) :
        TrueConflict(k, i) =>
            /\ Basename(JarsAt(k)[i]) \in allowlist_violation_jars
            /\ Basename(JarsAt(k)[i + 1]) \in allowlist_violation_jars
            /\ found_duplicates

\* C9: of two adjacent jars with differing digests, the basename of each jar
\* that is not allowlisted is in the violation set and the flag is set; an
\* allowlisted basename is never in the violation set; every basename of the
\* violation set comes from such a pair, and the flag is set only by a pair
\* with a jar that is not allowlisted.
C9_NonAllowlistedJarsAdded ==
    /\ \A k \in Items : \A i \in 1..Len(JarsAt(k)) :
          AdjacentMismatch(k, i) =>
              \A j \in { i, i + 1 } :
                  /\ Basename(JarsAt(k)[j]) \in allowlist_violation_jars <=> ~Allowlisted(JarsAt(k)[j])
                  /\ ~Allowlisted(JarsAt(k)[j]) => found_duplicates
    /\ \A b \in allowlist_violation_jars :
          /\ b \notin allowlisted_jars
          /\ \E k \in Items : \E i \in 1..Len(JarsAt(k)) :
                /\ TrueConflict(k, i)
                /\ b \in { Basename(JarsAt(k)[i]), Basename(JarsAt(k)[i + 1]) }
    /\ found_duplicates => \E k \in Items : \E i \in 1..Len(JarsAt(k)) : TrueConflict(k, i)

\* A pair with exactly one allowlisted jar: only the other jar's basename is added.
C9_Witness ==
    /\ Failed
    /\ \E k \in Items : \E i \in 1..Len(JarsAt(k)) :
          /\ AdjacentMismatch(k, i)
          /\ Allowlisted(JarsAt(k)[i])
          /\ ~Allowlisted(JarsAt(k)[i + 1])
          /\ allowlist_violation_jars = { Basename(JarsAt(k)[i + 1]) }

-----------------------------------------------------------------------------
(* C10 *)

\* C10: when run raises the failure, the outer loop has gone through every
\* class path, every jar of every class path with several jars has been read,
\* the diagnostic of every conflicting class path has been printed, and the
\* header and every allowlist candidate have been printed.
C10_NoShortCircuit ==
    Failed =>
        /\ class_idx > Len(class_path_to_jar_paths)
        /\ \A k \in Items :
              Len(JarsAt(k)) > 1 =>
                  \A i \in 1..Len(JarsAt(k)) : WasRead(JarsAt(k)[i], KeyAt(k))
        /\ \A k \in Items :
              (\E i \in 1..Len(JarsAt(k)) : TrueConflict(k, i)) => ConflictPrinted(KeyAt(k))
        /\ HeaderPrinted
        /\ PrintedCandidates = allowlist_violation_jars

\* The failure is raised after a conflict in the first of two class paths.
C10_Witness ==
    /\ Failed
    /\ Len(class_path_to_jar_paths) = 2
    /\ \E i \in 1..Len(JarsAt(1)) : TrueConflict(1, i)

====
